---------------------------- MODULE Spec2Model ----------------------------
(***************************************************************************)
(* Model of dag_generator.py: the HTCondor DAGMan planner of the Full MC   *)
(* production pipeline (pool and campaign catalogs, the T2 storage probe,  *)
(* DAGGenerator and main).                                                 *)
(*                                                                         *)
(* Representation.  A line of dag_lines is a tuple whose first element is  *)
(* the directive keyword.  A job name is a tuple <<"LHE", pool, i>> for    *)
(* f"LHE_{pool.name}_{i}" and <<"PROC", campaign, job_id>> for             *)
(* f"PROC_{campaign.name}_{job_id}": the two prefixes differ and the       *)
(* trailing decimal index is delimited by the last underscore, so the      *)
(* formatted strings are equal exactly when the tuples are.  The fields of *)
(* a pool that are only copied into the VARS line (process and the min_pt  *)
(* thresholds) and the description strings are left out.                   *)
(***************************************************************************)
EXTENDS Integers, Sequences, FiniteSets, TLC

VARIABLES
    LHE_POOLS,       \* pool name -> eos_path of the registered pools
    dag_lines,       \* DAGGenerator.dag_lines
    pc,              \* position of the running call
    campaigns,       \* generate_full_dag: the requested campaign names
    ci,              \* generate_full_dag: index of the next campaign (1-based)
    n_jobs,          \* the multiplicity of the running call
    all_jobs,        \* generate_full_dag: all_jobs
    cur,             \* generate_campaign_dag: the Campaign being planned
    raised,          \* the exception that ended the call, or None
    args_campaign,   \* main: args.campaign
    proxy,           \* environment: what the proxy check meets
    remote,          \* environment: pool name -> .lhe files listed on T2
    probed,          \* pools for which xrdfs was run, in order
    existing_pools,  \* main: the result of scan_existing_pools
    required_pools,  \* main: required_pools
    static_pools,    \* LHE_POOLS as it was when main started
    processing_jobs, \* what the last generate_campaign_dag returned
    ret,             \* where generate_full_dag returns to
    scan_args,       \* the arguments of the last scan_existing_pools call
    scans,           \* the number of scan_existing_pools calls made
    ctor_args        \* the inputs and modes of the last Campaign(...) call

vars == <<LHE_POOLS, dag_lines, pc, campaigns, ci, n_jobs, all_jobs, cur,
          raised, args_campaign, proxy, remote, probed, existing_pools,
          required_pools, static_pools, processing_jobs, ret, scan_args,
          scans, ctor_args>>

-----------------------------------------------------------------------------
(* Bounds of the exploration *)

\* largest multiplicity N of a direct planner call
MaxJobs == 3
\* longest inputs list of a Campaign object handed to generate_campaign_dag
MaxInputs == 3
\* longest campaign list handed to generate_full_dag
MaxCampaigns == 2
\* most .lhe files a remote pool directory lists
MaxFiles == 1
\* largest --jobs value given to main
MaxMainJobs == 1
\* most calls of scan_existing_pools in one behaviour of the probe
MaxScans == 2

-----------------------------------------------------------------------------
(* Python values *)

\* None; also stands for any falsy eos_path
None == <<>>

Truthy(x) == x # None

\* range(lo, hi) as a sequence
RECURSIVE Range(_, _)
Range(lo, hi) == IF lo >= hi THEN <<>> ELSE <<lo>> \o Range(lo + 1, hi)

\* the concatenation of a sequence of sequences
RECURSIVE Flatten(_)
Flatten(ss) == IF ss = <<>> THEN <<>> ELSE Head(ss) \o Flatten(Tail(ss))

\* the elements of a sequence
Elems(s) == {s[i] : i \in DOMAIN s}

\* every iteration order of a set (list(set(...)) fixes none)
RECURSIVE Orders(_)
Orders(S) ==
    IF S = {} THEN {<<>>}
    ELSE UNION {{<<x>> \o o : o \in Orders(S \ {x})} : x \in S}

-----------------------------------------------------------------------------
(* Catalogs *)

PoolNames ==
    {"pool_jpsi_CSCO_g", "pool_upsilon_CSCO_g", "pool_jpsi_upsilon_CSCO",
     "pool_gg", "pool_2jpsi", "pool_2jpsi_g"}

\* "{}/lhe_pools/{}".format(EOS_BASE, pool_name)
EosPath(pool_name) == <<"EOS_BASE/lhe_pools", pool_name>>

\* The eos_path of every registered pool.  Each entry of LHE_POOLS is
\* written with eos_path set, beside the commented-out alternative
\* "eos_path=None  # Will be generated" (the default of LHEPool.__init__).
ShippedPools == [p \in PoolNames |-> EosPath(p)]

\* the pools whose configuration the exploration varies
VariedPools == {"pool_jpsi_CSCO_g", "pool_gg", "pool_jpsi_upsilon_CSCO"}

\* the configurations of the catalog: each varied pool with its location or
\* without, the other pools as written
PoolCatalogs ==
    {[p \in PoolNames |-> IF p \in G THEN None ELSE ShippedPools[p]] :
        G \in SUBSET VariedPools}

\* Campaign.__init__ with the validation of the modes count forgotten
Campaign_Unchecked(name, analysis_type, inputs, modes, deprecated) ==
    [name |-> name, analysis_type |-> analysis_type, inputs |-> inputs,
     modes |-> modes, deprecated |-> deprecated, n_sources |-> Len(inputs)]

\* Campaign(name, analysis_type, inputs, modes, description, deprecated):
\* the object, or the ValueError __init__ raises
Campaign(name, analysis_type, inputs, modes, deprecated) ==
    IF Len(modes) # Len(inputs)
    THEN [raised |-> <<"ValueError", name>>]
    ELSE [name |-> name, analysis_type |-> analysis_type, inputs |-> inputs,
          modes |-> modes, deprecated |-> deprecated,
          n_sources |-> Len(inputs)]

\* whether a Campaign(...) call raised
Raises(c) == "raised" \in DOMAIN c

CAMPAIGNS ==
    [c \in {"JJP_SPS", "JJP_DPS1", "JJP_DPS2", "JJP_TPS", "JUP_SPS",
            "JUP_DPS1", "JUP_DPS2", "JUP_DPS3", "JUP_TPS"} |->
      CASE c = "JJP_SPS" ->
            Campaign(c, "JJP", <<"pool_2jpsi_g">>, <<"phi">>, FALSE)
        [] c = "JJP_DPS1" ->
            Campaign(c, "JJP", <<"pool_jpsi_CSCO_g", "pool_jpsi_CSCO_g">>,
                     <<"normal", "phi">>, FALSE)
        [] c = "JJP_DPS2" ->
            Campaign(c, "JJP", <<"pool_2jpsi", "pool_gg">>,
                     <<"normal", "phi">>, FALSE)
        [] c = "JJP_TPS" ->
            Campaign(c, "JJP",
                     <<"pool_jpsi_CSCO_g", "pool_jpsi_CSCO_g", "pool_gg">>,
                     <<"normal", "normal", "phi">>, FALSE)
        [] c = "JUP_SPS" ->
            Campaign(c, "JUP", <<"pool_jpsi_upsilon_CSCO">>, <<"phi">>, TRUE)
        [] c = "JUP_DPS1" ->
            Campaign(c, "JUP", <<"pool_jpsi_CSCO_g", "pool_upsilon_CSCO_g">>,
                     <<"phi", "normal">>, FALSE)
        [] c = "JUP_DPS2" ->
            Campaign(c, "JUP", <<"pool_jpsi_CSCO_g", "pool_upsilon_CSCO_g">>,
                     <<"normal", "phi">>, FALSE)
        [] c = "JUP_DPS3" ->
            Campaign(c, "JUP", <<"pool_jpsi_upsilon_CSCO", "pool_gg">>,
                     <<"normal", "phi">>, FALSE)
        [] c = "JUP_TPS" ->
            Campaign(c, "JUP",
                     <<"pool_jpsi_CSCO_g", "pool_upsilon_CSCO_g", "pool_gg">>,
                     <<"normal", "normal", "phi">>, FALSE)]

-----------------------------------------------------------------------------
(* DAGGenerator *)

\* the retry budget of a generation job
LHE_RETRY == 3
\* the retry budget of a processing job
PROC_RETRY == 2
\* the default start_seed of generate_seed_list
START_SEED == 100

LheJobName(pool_name, i) == <<"LHE", pool_name, i>>

ProcJobName(campaign_name, job_id) == <<"PROC", campaign_name, job_id>>

generate_seed_list(n) == Range(START_SEED, START_SEED + n)

\* the lines of a generation job with the retry budget of a processing job
LheJobLines_ProcBudget(pool_name, i, seed) ==
    << <<"JOB", LheJobName(pool_name, i), "lhe_gen.sub">>,
       <<"VARS", LheJobName(pool_name, i), [pool |-> pool_name, seed |-> seed]>>,
       <<"RETRY", LheJobName(pool_name, i), PROC_RETRY>> >>

\* the three lines add_lhe_generation_jobs appends for seeds[i]
LheJobLines(pool_name, i, seed) ==
    << <<"JOB", LheJobName(pool_name, i), "lhe_gen.sub">>,
       <<"VARS", LheJobName(pool_name, i), [pool |-> pool_name, seed |-> seed]>>,
       <<"RETRY", LheJobName(pool_name, i), LHE_RETRY>> >>

\* add_lhe_generation_jobs with the test of pool.eos_path forgotten
add_lhe_generation_jobs_NoSkip(pool_name, eos_path, n) ==
    LET seeds == generate_seed_list(n) IN
    [lines |-> Flatten([k \in DOMAIN seeds |->
                   LheJobLines(pool_name, k - 1, seeds[k])]),
     job_names |-> [k \in DOMAIN seeds |-> LheJobName(pool_name, k - 1)]]

\* add_lhe_generation_jobs(pool, n, seeds=None): the lines it appends and
\* the job names it returns
add_lhe_generation_jobs(pool_name, eos_path, n) ==
    IF Truthy(eos_path)
    THEN [lines |-> <<>>, job_names |-> <<>>]
    ELSE LET seeds == generate_seed_list(n) IN
         [lines |-> Flatten([k \in DOMAIN seeds |->
                        LheJobLines(pool_name, k - 1, seeds[k])]),
          job_names |-> [k \in DOMAIN seeds |-> LheJobName(pool_name, k - 1)]]

\* campaign.inputs.count(pool_name)
usage_count(inputs, pool_name) ==
    Cardinality({i \in DOMAIN inputs : inputs[i] = pool_name})

\* pool_usage_counter[pool_name] when input position i (1-based) is reached
usage_idx(inputs, i) ==
    Cardinality({k \in 1..(i - 1) : inputs[k] = inputs[i]})

\* the index with the multiplication by the usage count forgotten
lhe_job_idx_NoCount(job_id, count, uidx) == job_id + uidx

\* lhe_job_idx of job job_id for its usage_idx-th use of a pool used count times
lhe_job_idx(job_id, count, uidx) == job_id * count + uidx

\* add_processing_job with the test of parent_jobs forgotten
add_processing_job_AlwaysParent(campaign, job_id, lhe_files, parent_jobs) ==
    LET job_name == ProcJobName(campaign.name, job_id) IN
    << <<"JOB", job_name, "processing.sub">>,
       <<"VARS", job_name,
         [campaign |-> campaign.name, job_id |-> job_id,
          inputs |-> lhe_files, modes |-> campaign.modes,
          analysis |-> campaign.analysis_type,
          n_sources |-> campaign.n_sources]>>,
       <<"RETRY", job_name, PROC_RETRY>>,
       <<"PARENT", parent_jobs, job_name>> >>

\* add_processing_job recording the edge before it declares the job
add_processing_job_EdgeFirst(campaign, job_id, lhe_files, parent_jobs) ==
    LET job_name == ProcJobName(campaign.name, job_id) IN
    (IF parent_jobs # <<>>
     THEN << <<"PARENT", parent_jobs, job_name>> >>
     ELSE <<>>)
    \o << <<"JOB", job_name, "processing.sub">>,
          <<"VARS", job_name,
            [campaign |-> campaign.name, job_id |-> job_id,
             inputs |-> lhe_files, modes |-> campaign.modes,
             analysis |-> campaign.analysis_type,
             n_sources |-> campaign.n_sources]>>,
          <<"RETRY", job_name, PROC_RETRY>> >>

\* the lines add_processing_job appends
add_processing_job(campaign, job_id, lhe_files, parent_jobs) ==
    LET job_name == ProcJobName(campaign.name, job_id) IN
    << <<"JOB", job_name, "processing.sub">>,
       <<"VARS", job_name,
         [campaign |-> campaign.name, job_id |-> job_id,
          inputs |-> lhe_files, modes |-> campaign.modes,
          analysis |-> campaign.analysis_type,
          n_sources |-> campaign.n_sources]>>,
       <<"RETRY", job_name, PROC_RETRY>> >>
    \o (IF parent_jobs # <<>>
        THEN << <<"PARENT", parent_jobs, job_name>> >>
        ELSE <<>>)

\* the comment block generate_campaign_dag starts with
CampaignHeader(campaign) ==
    << <<"#", "====">>, <<"#", "Campaign", campaign.name>>,
       <<"#", "Description", campaign.name>> >>
    \o (IF campaign.deprecated THEN << <<"#", "*** DEPRECATED ***">> >>
        ELSE <<>>)
    \o << <<"#", "====">> >>

\* Stage 1 handing each pool seeds that go on from the lines written so
\* far, through the seeds parameter of add_lhe_generation_jobs
RECURSIVE Stage1_RunningSeeds(_, _, _, _, _, _)
Stage1_RunningSeeds(order, campaign, n, use_existing_lhe, pools, acc) ==
    IF order = <<>> THEN acc
    ELSE LET pool_name == Head(order) IN
         IF pool_name \notin DOMAIN pools
         THEN [acc EXCEPT !.raised = <<"KeyError", pool_name>>]
         ELSE LET count == usage_count(campaign.inputs, pool_name)
                  jobs_per_pool == n * count
                  first == START_SEED + Len(acc.lines)
                  gen == IF Truthy(pools[pool_name])
                         THEN [lines |-> <<>>, job_names |-> <<>>]
                         ELSE [lines |-> Flatten([k \in 1..jobs_per_pool |->
                                  LheJobLines(pool_name, k - 1, first + k - 1)]),
                               job_names |-> [k \in 1..jobs_per_pool |->
                                  LheJobName(pool_name, k - 1)]]
              IN Stage1_RunningSeeds(Tail(order), campaign, n,
                    use_existing_lhe, pools,
                    [lines |-> acc.lines \o gen.lines,
                     pool_lhe_jobs |->
                        (pool_name :> gen.job_names) @@ acc.pool_lhe_jobs,
                     raised |-> None])

\* Stage 1 of generate_campaign_dag, the pools taken in the given order:
\* the lines appended, pool_lhe_jobs, and the exception that stopped it
RECURSIVE Stage1(_, _, _, _, _, _)
Stage1(order, campaign, n, use_existing_lhe, pools, acc) ==
    IF order = <<>> THEN acc
    ELSE LET pool_name == Head(order) IN
         IF pool_name \notin DOMAIN pools
         THEN [acc EXCEPT !.raised = <<"KeyError", pool_name>>]
         ELSE LET count == usage_count(campaign.inputs, pool_name)
                  jobs_per_pool == n * count
                  gen == IF use_existing_lhe /\ Truthy(pools[pool_name])
                         THEN [lines |-> <<>>, job_names |-> <<>>]
                         ELSE add_lhe_generation_jobs(pool_name,
                                  pools[pool_name], jobs_per_pool)
              IN Stage1(Tail(order), campaign, n, use_existing_lhe, pools,
                    [lines |-> acc.lines \o gen.lines,
                     pool_lhe_jobs |->
                        (pool_name :> gen.job_names) @@ acc.pool_lhe_jobs,
                     raised |-> None])

\* one pass of the inner loop of Stage 2 for input position i (1-based)
LheSource(campaign, job_id, i, pools, pool_lhe_jobs) ==
    LET pool_name == campaign.inputs[i]
        uidx == usage_idx(campaign.inputs, i)
        idx == lhe_job_idx(job_id, usage_count(campaign.inputs, pool_name),
                           uidx)
    IN IF Truthy(pools[pool_name])
       THEN [file |-> <<"EOS", pool_name, job_id, uidx>>, parent |-> None,
             raised |-> None]
       ELSE IF idx + 1 \in DOMAIN pool_lhe_jobs[pool_name]
            THEN [file |-> <<"GEN", pool_name, idx>>,
                  parent |-> pool_lhe_jobs[pool_name][idx + 1],
                  raised |-> None]
            ELSE [file |-> None, parent |-> None,
                  raised |-> <<"IndexError", pool_name>>]

\* Stage 2 of generate_campaign_dag for job ids job_id .. n-1
RECURSIVE Stage2(_, _, _, _, _, _)
Stage2(job_id, n, campaign, pools, pool_lhe_jobs, acc) ==
    IF job_id >= n THEN acc
    ELSE LET src == [i \in DOMAIN campaign.inputs |->
                        LheSource(campaign, job_id, i, pools, pool_lhe_jobs)]
             bad == {i \in DOMAIN src : src[i].raised # None}
         IN IF bad # {}
            THEN [acc EXCEPT
                    !.raised = src[CHOOSE i \in bad :
                                     \A k \in bad : i <= k].raised]
            ELSE LET lhe_files == [i \in DOMAIN src |-> src[i].file]
                     parent_jobs ==
                        SelectSeq([i \in DOMAIN src |-> src[i].parent],
                                  LAMBDA x : x # None)
                 IN Stage2(job_id + 1, n, campaign, pools, pool_lhe_jobs,
                       [lines |-> acc.lines \o add_processing_job(campaign,
                                      job_id, lhe_files, parent_jobs),
                        jobs |-> Append(acc.jobs,
                                    ProcJobName(campaign.name, job_id)),
                        raised |-> None])

\* generate_campaign_dag(campaign, n_jobs, use_existing_lhe) on a generator
\* whose dag_lines is `lines`, list(set(campaign.inputs)) coming out as
\* `order`: the new dag_lines, the returned processing_jobs, the exception
generate_campaign_dag(lines, campaign, n, use_existing_lhe, order, pools) ==
    LET s1 == Stage1(order, campaign, n, use_existing_lhe, pools,
                  [lines |-> lines \o CampaignHeader(campaign),
                   pool_lhe_jobs |-> <<>>, raised |-> None])
    IN IF s1.raised # None
       THEN [lines |-> s1.lines, jobs |-> <<>>, raised |-> s1.raised]
       ELSE Stage2(0, n, campaign, pools, s1.pool_lhe_jobs,
               [lines |-> s1.lines, jobs |-> <<>>, raised |-> None])

\* the header and configuration lines generate_full_dag starts with
FullDagHeader(names, n) ==
    << <<"#", "====">>, <<"#", "Full MC Production DAG">>,
       <<"#", "Generated">>, <<"#", "Campaigns", names>>,
       <<"#", "Jobs per campaign", n>>, <<"#", "====">>, <<"">>,
       <<"#", "DAG Configuration">>, <<"CONFIG", "dagman.config">>, <<"">> >>

\* the summary node written whatever all_jobs holds
SummaryLines_Always(jobs) ==
    << <<"#", "====">>, <<"#", "Final Summary Node">>, <<"#", "====">>,
       <<"FINAL", <<"SUMMARY">>, "summary.sub">> >>

\* the summary node declared twice
SummaryLines_Twice(jobs) ==
    IF jobs # <<>>
    THEN << <<"#", "====">>, <<"#", "Final Summary Node">>, <<"#", "====">>,
            <<"FINAL", <<"SUMMARY">>, "summary.sub">>,
            <<"FINAL", <<"SUMMARY">>, "summary.sub">> >>
    ELSE <<>>

\* the final summary node of generate_full_dag; the node name SUMMARY is
\* written <<"SUMMARY">>, a tuple like the other job names
SummaryLines(jobs) ==
    IF jobs # <<>>
    THEN << <<"#", "====">>, <<"#", "Final Summary Node">>, <<"#", "====">>,
            <<"FINAL", <<"SUMMARY">>, "summary.sub">> >>
    ELSE <<>>

-----------------------------------------------------------------------------
(* T2 storage check functions *)

\* the remaining lifetime, in seconds, above which the proxy is reported valid
PROXY_MIN_TIMELEFT == 3600

\* What check_proxy_valid can meet: the proxy file missing; voms-proxy-info
\* raising (tool missing, timeout), exiting non-zero, printing something
\* int() rejects, or printing the seconds left.
ProxyEnvs ==
    {[exists |-> FALSE, run |-> "none", timeleft |-> 0]}
    \cup {[exists |-> TRUE, run |-> r, timeleft |-> 0] :
            r \in {"raise", "nonzero", "unparsable"}}
    \cup {[exists |-> TRUE, run |-> "ok", timeleft |-> t] :
            t \in {0, 1, PROXY_MIN_TIMELEFT, PROXY_MIN_TIMELEFT + 1}}

\* check_proxy_valid answering False for a lifetime at or below the hour
check_proxy_valid_Strict(env) ==
    IF ~env.exists THEN FALSE
    ELSE IF env.run = "ok"
         THEN env.timeleft > PROXY_MIN_TIMELEFT
         ELSE TRUE

\* check_proxy_valid answering False whenever it cannot read the lifetime
check_proxy_valid_FailClosed(env) ==
    IF ~env.exists THEN FALSE
    ELSE IF env.run = "ok"
         THEN IF env.timeleft > PROXY_MIN_TIMELEFT THEN TRUE
              ELSE env.timeleft > 0
         ELSE FALSE

\* check_proxy_valid(): env.run is what subprocess.run of voms-proxy-info
\* does, env.timeleft what int(result.stdout) gives
check_proxy_valid(env) ==
    IF ~env.exists THEN FALSE
    ELSE IF env.run = "ok"
         THEN IF env.timeleft > PROXY_MIN_TIMELEFT THEN TRUE
              ELSE env.timeleft > 0
         ELSE TRUE

\* What xrdfs ls can answer for one pool directory: a listing with so many
\* .lhe files, a non-zero status, a timeout, or another error.
RemoteOutcomes ==
    {[status |-> "ok", files |-> f] : f \in 0..MaxFiles}
    \cup {[status |-> st, files |-> 0] : st \in {"nonzero", "timeout", "error"}}

count_lhe_files_on_t2(outcome) ==
    IF outcome.status = "ok" THEN outcome.files ELSE 0

\* the loop with the threshold test made strict (count > min_files)
RECURSIVE ScanLoop_Strict(_, _, _, _, _)
ScanLoop_Strict(i, pool_list, min_files, rem, existing) ==
    IF i > Len(pool_list) THEN existing
    ELSE LET pool_name == pool_list[i]
             count == count_lhe_files_on_t2(rem[pool_name])
         IN ScanLoop_Strict(i + 1, pool_list, min_files, rem,
                IF count > min_files
                THEN (pool_name :> EosPath(pool_name)) @@ existing
                ELSE existing)

\* the loop giving up at the first pool whose listing failed
RECURSIVE ScanLoop_AbortOnFailure(_, _, _, _, _)
ScanLoop_AbortOnFailure(i, pool_list, min_files, rem, existing) ==
    IF i > Len(pool_list) THEN existing
    ELSE LET pool_name == pool_list[i]
             count == count_lhe_files_on_t2(rem[pool_name])
         IN IF rem[pool_name].status # "ok" THEN existing
            ELSE ScanLoop_AbortOnFailure(i + 1, pool_list, min_files, rem,
                    IF count >= min_files
                    THEN (pool_name :> EosPath(pool_name)) @@ existing
                    ELSE existing)

\* the loop of scan_existing_pools over required_pools[i..]
RECURSIVE ScanLoop(_, _, _, _, _)
ScanLoop(i, pool_list, min_files, rem, existing) ==
    IF i > Len(pool_list) THEN existing
    ELSE LET pool_name == pool_list[i]
             count == count_lhe_files_on_t2(rem[pool_name])
         IN ScanLoop(i + 1, pool_list, min_files, rem,
                IF count >= min_files
                THEN (pool_name :> EosPath(pool_name)) @@ existing
                ELSE existing)

\* scan_existing_pools with the proxy check forgotten
scan_existing_pools_NoProxyCheck(pool_list, min_files, env, rem) ==
    [existing |-> ScanLoop(1, pool_list, min_files, rem, <<>>),
     probed |-> Elems(pool_list)]

\* scan_existing_pools(required_pools, min_files): the mapping it returns and
\* the pools it ran xrdfs for
scan_existing_pools(pool_list, min_files, env, rem) ==
    IF ~check_proxy_valid(env)
    THEN [existing |-> <<>>, probed |-> {}]
    ELSE [existing |-> ScanLoop(1, pool_list, min_files, rem, <<>>),
          probed |-> Elems(pool_list)]

-----------------------------------------------------------------------------
(* Calls on a DAGGenerator *)

plannerVars == <<dag_lines, campaigns, ci, n_jobs, all_jobs, cur, raised,
                 processing_jobs, ret>>

mainVars == <<args_campaign, proxy, remote, probed, existing_pools,
              required_pools, static_pools, scan_args, scans>>

\* a name LHE_POOLS does not hold
UNREGISTERED == "pool_unregistered"

\* the pool names the inputs of a Campaign object are drawn from
InputPools == {"pool_jpsi_CSCO_g", "pool_gg", UNREGISTERED}

\* the inputs lists of the Campaign objects handed to generate_campaign_dag
InputLists == UNION {[1..k -> InputPools] : k \in 0..MaxInputs}

\* modes of the same length as the inputs, as Campaign.__init__ demands
ModesFor(inputs) ==
    [i \in DOMAIN inputs |-> IF i = Len(inputs) THEN "phi" ELSE "normal"]

\* the Campaign objects handed to generate_campaign_dag: those of the
\* catalog and constructed ones
CampaignObjects ==
    {CAMPAIGNS[c] : c \in DOMAIN CAMPAIGNS}
    \cup {Campaign("TEST", "JJP", inp, ModesFor(inp), FALSE) :
            inp \in InputLists}

\* the campaign names the lists handed to generate_full_dag are drawn from
RequestNames == {"JJP_DPS1", "JJP_TPS", "JUP_DPS3", "NOPE"}

\* the lists handed to generate_full_dag: each name at most once, as in
\* the lists main builds
RequestLists ==
    {l \in UNION {[1..k -> RequestNames] : k \in 0..MaxCampaigns} :
        \A i, j \in DOMAIN l : l[i] = l[j] => i = j}

Init ==
    /\ LHE_POOLS \in PoolCatalogs
    /\ dag_lines = <<>>
    /\ pc = "idle"
    /\ campaigns = <<>>
    /\ ci = 0
    /\ n_jobs = 0
    /\ all_jobs = <<>>
    /\ cur = Campaign("", "", <<>>, <<>>, FALSE)
    /\ raised = None
    /\ processing_jobs = <<>>
    /\ ret = "full_done"
    /\ args_campaign = ""
    /\ proxy = [exists |-> FALSE, run |-> "none", timeleft |-> 0]
    /\ remote = <<>>
    /\ probed = {}
    /\ existing_pools = <<>>
    /\ required_pools = {}
    /\ static_pools = LHE_POOLS
    /\ scan_args = [required_pools |-> <<>>, min_files |-> 0]
    /\ scans = 0
    /\ ctor_args = [inputs |-> <<>>, modes |-> <<>>]

\* generator.generate_campaign_dag(campaign, n_jobs, use_existing_lhe)
GenerateCampaignDag ==
    /\ pc = "idle"
    /\ \E c \in CampaignObjects, n \in 0..MaxJobs, use \in BOOLEAN :
       \E order \in Orders(Elems(c.inputs)) :
         LET r == generate_campaign_dag(dag_lines, c, n, use, order,
                                        LHE_POOLS)
         IN /\ cur' = c
            /\ n_jobs' = n
            /\ dag_lines' = r.lines
            /\ processing_jobs' = r.jobs
            /\ raised' = r.raised
            /\ pc' = IF r.raised = None THEN "campaign_done"
                     ELSE "campaign_raised"
    /\ UNCHANGED <<LHE_POOLS, ctor_args, campaigns, ci, all_jobs, ret, mainVars>>

\* generator.generate_full_dag(campaigns, n_jobs), up to its loop
GenerateFullDag ==
    /\ pc = "idle"
    /\ \E names \in RequestLists, n \in 0..MaxJobs :
         /\ campaigns' = names
         /\ n_jobs' = n
         /\ dag_lines' = FullDagHeader(names, n)
    /\ all_jobs' = <<>>
    /\ ci' = 1
    /\ ret' = "full_done"
    /\ pc' = "campaign_loop"
    /\ UNCHANGED <<LHE_POOLS, ctor_args, cur, raised, processing_jobs, mainVars>>

\* one pass of the loop of generate_full_dag over the campaign names
FullDagCampaign ==
    /\ pc = "campaign_loop"
    /\ ci <= Len(campaigns)
    /\ LET campaign_name == campaigns[ci] IN
       IF campaign_name \notin DOMAIN CAMPAIGNS
       THEN /\ ci' = ci + 1
            /\ UNCHANGED <<dag_lines, all_jobs, cur, raised, processing_jobs,
                           pc>>
       ELSE LET campaign == CAMPAIGNS[campaign_name] IN
            \E order \in Orders(Elems(campaign.inputs)) :
              LET r == generate_campaign_dag(dag_lines, campaign, n_jobs,
                                             TRUE, order, LHE_POOLS)
              IN /\ cur' = campaign
                 /\ dag_lines' = r.lines
                 /\ processing_jobs' = r.jobs
                 /\ raised' = r.raised
                 /\ IF r.raised = None
                    THEN /\ all_jobs' = all_jobs \o r.jobs
                         /\ ci' = ci + 1
                         /\ pc' = pc
                    ELSE /\ pc' = "full_raised"
                         /\ UNCHANGED <<all_jobs, ci>>
    /\ UNCHANGED <<LHE_POOLS, ctor_args, campaigns, n_jobs, ret, mainVars>>

\* the end of generate_full_dag: the summary node and the return
FullDagSummary ==
    /\ pc = "campaign_loop"
    /\ ci > Len(campaigns)
    /\ dag_lines' = dag_lines \o SummaryLines(all_jobs)
    /\ pc' = ret
    /\ UNCHANGED <<LHE_POOLS, ctor_args, campaigns, ci, n_jobs, all_jobs, cur, raised,
                   processing_jobs, ret, mainVars>>

Next ==
    \/ GenerateCampaignDag
    \/ GenerateFullDag
    \/ FullDagCampaign
    \/ FullDagSummary

Spec == Init /\ [][Next]_vars

-----------------------------------------------------------------------------
(* Calls of generate_full_dag with a campaign naming an unregistered pool *)

\* the pool whose registration the exploration varies
DroppedPool == "pool_gg"

\* the configurations of the catalog, and those with the entry of
\* DroppedPool taken out of LHE_POOLS: the campaigns of CAMPAIGNS naming it
\* (JJP_DPS2, JJP_TPS, JUP_DPS3, JUP_TPS) then reference an unknown pool
EditedCatalogs ==
    PoolCatalogs
    \cup {[p \in PoolNames \ {DroppedPool} |-> cat[p]] : cat \in PoolCatalogs}

FullDagInit ==
    /\ LHE_POOLS \in EditedCatalogs
    /\ dag_lines = <<>>
    /\ pc = "idle"
    /\ campaigns = <<>>
    /\ ci = 0
    /\ n_jobs = 0
    /\ all_jobs = <<>>
    /\ cur = Campaign("", "", <<>>, <<>>, FALSE)
    /\ raised = None
    /\ processing_jobs = <<>>
    /\ ret = "full_done"
    /\ args_campaign = ""
    /\ proxy = [exists |-> FALSE, run |-> "none", timeleft |-> 0]
    /\ remote = <<>>
    /\ probed = {}
    /\ existing_pools = <<>>
    /\ required_pools = {}
    /\ static_pools = LHE_POOLS
    /\ scan_args = [required_pools |-> <<>>, min_files |-> 0]
    /\ scans = 0
    /\ ctor_args = [inputs |-> <<>>, modes |-> <<>>]

FullDagNext ==
    \/ GenerateFullDag
    \/ FullDagCampaign
    \/ FullDagSummary

FullDagSpec == FullDagInit /\ [][FullDagNext]_vars

-----------------------------------------------------------------------------
(* Calls of Campaign *)

\* the shower modes
Modes == {"normal", "phi"}

\* the modes lists handed to Campaign
ModeLists == UNION {[1..k -> Modes] : k \in 0..MaxInputs}

\* Campaign("TEST", "JJP", inputs, modes, ...)
ConstructCampaign ==
    /\ pc = "idle"
    /\ \E inputs \in InputLists, modes \in ModeLists :
         LET c == Campaign("TEST", "JJP", inputs, modes, FALSE)
         IN /\ ctor_args' = [inputs |-> inputs, modes |-> modes]
            /\ IF Raises(c)
               THEN /\ raised' = c.raised
                    /\ pc' = "construct_raised"
                    /\ UNCHANGED cur
               ELSE /\ cur' = c
                    /\ raised' = None
                    /\ pc' = "constructed"
    /\ UNCHANGED <<LHE_POOLS, dag_lines, campaigns, ci, n_jobs, all_jobs,
                   processing_jobs, ret, mainVars>>

CatalogNext == ConstructCampaign

CatalogSpec == Init /\ [][CatalogNext]_vars

-----------------------------------------------------------------------------
(* Calls of scan_existing_pools *)

\* the pools of the lists handed to scan_existing_pools
ProbePools == {"pool_jpsi_CSCO_g", "pool_gg"}

\* the lists handed to scan_existing_pools
ProbeLists == UNION {Orders(S) : S \in SUBSET ProbePools}

ProbeInit ==
    /\ LHE_POOLS = ShippedPools
    /\ dag_lines = <<>>
    /\ pc = "idle"
    /\ campaigns = <<>>
    /\ ci = 0
    /\ n_jobs = 0
    /\ all_jobs = <<>>
    /\ cur = Campaign("", "", <<>>, <<>>, FALSE)
    /\ raised = None
    /\ processing_jobs = <<>>
    /\ ret = "full_done"
    /\ args_campaign = ""
    /\ proxy \in ProxyEnvs
    /\ remote \in [ProbePools -> RemoteOutcomes]
    /\ probed = {}
    /\ existing_pools = <<>>
    /\ required_pools = {}
    /\ static_pools = LHE_POOLS
    /\ scan_args = [required_pools |-> <<>>, min_files |-> 0]
    /\ scans = 0
    /\ ctor_args = [inputs |-> <<>>, modes |-> <<>>]

\* scan_existing_pools(required_pools, min_files)
ScanExistingPools ==
    /\ pc \in {"idle", "scanned"}
    /\ scans < MaxScans
    /\ \E pool_list \in ProbeLists, min_files \in 0..(MaxFiles + 1) :
         LET r == scan_existing_pools(pool_list, min_files, proxy, remote)
         IN /\ scan_args' = [required_pools |-> pool_list,
                             min_files |-> min_files]
            /\ existing_pools' = r.existing
            /\ probed' = r.probed
    /\ scans' = scans + 1
    /\ pc' = "scanned"
    /\ UNCHANGED <<LHE_POOLS, ctor_args, plannerVars, args_campaign, proxy, remote,
                   required_pools, static_pools>>

ProbeNext == ScanExistingPools

ProbeSpec == ProbeInit /\ [][ProbeNext]_vars

-----------------------------------------------------------------------------
(* main *)

\* the keys of CAMPAIGNS, in the order they are written
CampaignKeys ==
    <<"JJP_SPS", "JJP_DPS1", "JJP_DPS2", "JJP_TPS", "JUP_SPS", "JUP_DPS1",
      "JUP_DPS2", "JUP_DPS3", "JUP_TPS">>

\* c.startswith(prefix) for the campaign names of the catalog
StartsWith(c, prefix) == CAMPAIGNS[c].analysis_type = prefix

\* the campaigns main plans for args.campaign, or None when it exits
SelectCampaigns(sel) ==
    IF sel = "ALL" THEN CampaignKeys
    ELSE IF sel = "JJP_ALL"
         THEN SelectSeq(CampaignKeys, LAMBDA c : StartsWith(c, "JJP"))
    ELSE IF sel = "JUP_ALL"
         THEN SelectSeq(CampaignKeys, LAMBDA c : StartsWith(c, "JUP"))
    ELSE IF sel \in DOMAIN CAMPAIGNS THEN <<sel>>
    ELSE None

\* the values of --campaign explored
Selectors == {"JJP_SPS", "JJP_DPS1", "JJP_TPS", "JUP_DPS3", "JJP_ALL", "NOPE"}

\* the configurations of the catalog main starts from: as written, and with
\* every eos_path left at its default
MainCatalogs == {ShippedPools, [p \in PoolNames |-> None]}

\* what the proxy check meets in the runs of main explored
MainProxyEnvs ==
    {e \in ProxyEnvs : e.run \in {"none", "raise"}
                       \/ (e.run = "ok" /\ e.timeleft \notin {1, PROXY_MIN_TIMELEFT})}

\* what xrdfs answers in the runs of main explored
MainRemoteOutcomes ==
    {o \in RemoteOutcomes : o.status \in {"ok", "timeout"}}

MainInit ==
    /\ LHE_POOLS \in MainCatalogs
    /\ dag_lines = <<>>
    /\ pc = "main_start"
    /\ campaigns = <<>>
    /\ ci = 0
    /\ n_jobs = 0
    /\ all_jobs = <<>>
    /\ cur = Campaign("", "", <<>>, <<>>, FALSE)
    /\ raised = None
    /\ processing_jobs = <<>>
    /\ ret = "main_write"
    /\ args_campaign = ""
    /\ proxy = [exists |-> FALSE, run |-> "none", timeleft |-> 0]
    /\ remote = <<>>
    /\ probed = {}
    /\ existing_pools = <<>>
    /\ required_pools = {}
    /\ static_pools = LHE_POOLS
    /\ scan_args = [required_pools |-> <<>>, min_files |-> 0]
    /\ scans = 0
    /\ ctor_args = [inputs |-> <<>>, modes |-> <<>>]

\* main, from the argument parsing to required_pools
MainSelect ==
    /\ pc = "main_start"
    /\ \E sel \in Selectors, jobs \in 0..MaxMainJobs :
         /\ args_campaign' = sel
         /\ n_jobs' = jobs
         /\ IF SelectCampaigns(sel) = None
            THEN /\ pc' = "main_exit"
                 /\ UNCHANGED <<campaigns, required_pools>>
            ELSE /\ campaigns' = SelectCampaigns(sel)
                 /\ required_pools' =
                      UNION {Elems(CAMPAIGNS[c].inputs) :
                                c \in Elems(SelectCampaigns(sel))}
                 /\ pc' = "main_scan"
    /\ UNCHANGED <<LHE_POOLS, ctor_args, dag_lines, ci, all_jobs, cur, raised,
                   processing_jobs, ret, proxy, remote, probed,
                   existing_pools, static_pools, scan_args, scans>>

\* main: existing_pools = scan_existing_pools(list(required_pools), args.jobs)
MainScan ==
    /\ pc = "main_scan"
    /\ \E env \in MainProxyEnvs,
          rem \in [required_pools -> MainRemoteOutcomes],
          pool_list \in Orders(required_pools) :
         LET r == scan_existing_pools(pool_list, n_jobs, env, rem)
         IN /\ proxy' = env
            /\ remote' = rem
            /\ existing_pools' = r.existing
            /\ probed' = r.probed
    /\ scans' = scans + 1
    /\ pc' = "main_patch"
    /\ UNCHANGED <<LHE_POOLS, ctor_args, plannerVars, args_campaign, required_pools,
                   static_pools, scan_args>>

\* the patch loop also clearing the location of every required pool the
\* probe did not return
MainPatch_Clearing ==
    /\ pc = "main_patch"
    /\ LHE_POOLS' =
         [p \in DOMAIN LHE_POOLS |->
            IF p \in DOMAIN existing_pools THEN existing_pools[p]
            ELSE IF p \in required_pools THEN None
            ELSE LHE_POOLS[p]]
    /\ pc' = "main_plan"
    /\ UNCHANGED <<plannerVars, mainVars, ctor_args>>

\* main going on to the planner with the detected locations not written
MainPatch_Skipped ==
    /\ pc = "main_patch"
    /\ pc' = "main_plan"
    /\ UNCHANGED <<LHE_POOLS, plannerVars, mainVars, ctor_args>>

\* main: the loop that writes the detected locations into LHE_POOLS
MainPatch ==
    /\ pc = "main_patch"
    /\ LHE_POOLS' =
         [p \in DOMAIN LHE_POOLS |->
            IF p \in DOMAIN existing_pools THEN existing_pools[p]
            ELSE LHE_POOLS[p]]
    /\ pc' = "main_plan"
    /\ UNCHANGED <<plannerVars, mainVars, ctor_args>>

\* main: generator = DAGGenerator(...); generate_full_dag(campaigns, args.jobs)
\* up to its loop
MainGenerate ==
    /\ pc = "main_plan"
    /\ dag_lines' = FullDagHeader(campaigns, n_jobs)
    /\ all_jobs' = <<>>
    /\ ci' = 1
    /\ ret' = "main_write"
    /\ pc' = "campaign_loop"
    /\ UNCHANGED <<LHE_POOLS, ctor_args, campaigns, n_jobs, cur, raised, processing_jobs,
                   mainVars>>

\* main: the document is printed (dry run) or written by write_dag
MainWrite ==
    /\ pc = "main_write"
    /\ pc' = "main_done"
    /\ UNCHANGED <<LHE_POOLS, ctor_args, plannerVars, mainVars>>

MainNext ==
    \/ MainSelect
    \/ MainScan
    \/ MainPatch
    \/ MainGenerate
    \/ FullDagCampaign
    \/ FullDagSummary
    \/ MainWrite

MainSpec == MainInit /\ [][MainNext]_vars

-----------------------------------------------------------------------------
(* Reading a document *)

\* the positions of the JOB directives
JobLines == {i \in DOMAIN dag_lines : dag_lines[i][1] = "JOB"}

\* the positions of the JOB directives of the generation jobs of pool p
LheJobDecls(p) ==
    {i \in JobLines : dag_lines[i][2][1] = "LHE" /\ dag_lines[i][2][2] = p}

\* the positions of the JOB directives of the processing jobs
ProcJobLines == {i \in JobLines : dag_lines[i][2][1] = "PROC"}

\* the positions of the VARS directives of job `name`
VarsLines(name) ==
    {i \in DOMAIN dag_lines : dag_lines[i][1] = "VARS" /\ dag_lines[i][2] = name}

\* the positions of the PARENT directives whose child is job `name`
ParentLines(name) ==
    {i \in DOMAIN dag_lines :
        dag_lines[i][1] = "PARENT" /\ dag_lines[i][3] = name}

\* the positions of the VARS directives of the processing jobs
ProcVarsLines ==
    {i \in DOMAIN dag_lines :
        dag_lines[i][1] = "VARS" /\ dag_lines[i][2][1] = "PROC"}

\* the number of occurrences of pool p in an inputs list
Uses(inputs, p) == Cardinality({k \in DOMAIN inputs : inputs[k] = p})

\* the 0-based occurrence number u of input position i among the
\* occurrences of its pool
Occ(inputs, i) ==
    Cardinality({k \in DOMAIN inputs : k < i /\ inputs[k] = inputs[i]})

\* pool p of the planned campaign has no pre-staged location
NotStaged(p) == p \in DOMAIN LHE_POOLS /\ LHE_POOLS[p] = None

\* the input positions of the planned campaign whose pool is not pre-staged
GenPositions == {i \in DOMAIN cur.inputs : NotStaged(cur.inputs[i])}

\* the references of the processing jobs to pool p, as a set of
\* <<VARS line, input position, reference>>
PoolRefs(p) ==
    UNION {{<<v, i, dag_lines[v][3].inputs[i]>> :
              i \in {k \in DOMAIN dag_lines[v][3].inputs :
                        dag_lines[v][3].inputs[k][2] = p}} :
           v \in ProcVarsLines}

\* those that refer to a generated unit
GenRefs(p) == {r \in PoolRefs(p) : r[3][1] = "GEN"}

\* the places where job `name` is recorded as a parent, as a set of
\* <<PARENT line, position in its parent list>>
ParentSlots(name) ==
    UNION {{<<e, k>> : k \in {k \in DOMAIN dag_lines[e][2] :
                                 dag_lines[e][2][k] = name}} :
           e \in {e \in DOMAIN dag_lines : dag_lines[e][1] = "PARENT"}}

-----------------------------------------------------------------------------
(* The index assignment *)

\* C1: after generate_campaign_dag(campaign, N), for every job j in 0..N-1
\* and every input position whose pool p has no pre-staged location, being
\* occurrence u of p, the reference of PROC job j at that position is
\* GEN:p:(j*usage_count(p)+u) and the parent recorded for it is
\* LHE_p_(j*usage_count(p)+u).
C1_IndexAssignment ==
    pc = "campaign_done" =>
      \A j \in 0..(n_jobs - 1) : \A i \in GenPositions :
        LET p == cur.inputs[i]
            idx == j * Uses(cur.inputs, p) + Occ(cur.inputs, i)
            name == ProcJobName(cur.name, j)
            rank == Cardinality({k \in GenPositions : k <= i})
        IN /\ VarsLines(name) # {}
           /\ \A v \in VarsLines(name) :
                dag_lines[v][3].inputs[i] = <<"GEN", p, idx>>
           /\ ParentLines(name) # {}
           /\ \A e \in ParentLines(name) :
                /\ rank \in DOMAIN dag_lines[e][2]
                /\ dag_lines[e][2][rank] = <<"LHE", p, idx>>

\* a pool used twice and not pre-staged: job 2 of 3 consumes unit 5 at its
\* second occurrence
C1_Witness ==
    /\ pc = "campaign_done"
    /\ n_jobs = 3
    /\ cur.inputs = <<"pool_jpsi_CSCO_g", "pool_jpsi_CSCO_g", "pool_gg">>
    /\ LHE_POOLS["pool_jpsi_CSCO_g"] = None
    /\ \E v \in VarsLines(ProcJobName(cur.name, 2)) :
         dag_lines[v][3].inputs[2] = <<"GEN", "pool_jpsi_CSCO_g", 5>>

\* the unit indices of pool p consumed at input position i, over all jobs
ConsumedAt(p, i) == {r[3][3] : r \in {x \in GenRefs(p) : x[2] = i}}

\* C2: after generate_campaign_dag(campaign, N), for every pool p of the
\* campaign without a pre-staged location, used c times: the unit indices
\* consumed over all (job, occurrence) pairs are pairwise distinct, the
\* index sets of different occurrence positions are disjoint, their union
\* is 0..c*N-1, and every generation job of p is recorded as a parent in
\* exactly one place.
C2_IndexBijection ==
    pc = "campaign_done" =>
      \A p \in {cur.inputs[i] : i \in GenPositions} :
        LET c == Uses(cur.inputs, p)
            pos == {i \in DOMAIN cur.inputs : cur.inputs[i] = p}
        IN /\ Cardinality(GenRefs(p)) = c * n_jobs
           /\ \A r1, r2 \in GenRefs(p) : r1[3][3] = r2[3][3] => r1 = r2
           /\ \A i1, i2 \in pos :
                i1 # i2 => ConsumedAt(p, i1) \cap ConsumedAt(p, i2) = {}
           /\ UNION {ConsumedAt(p, i) : i \in pos} = 0..(c * n_jobs - 1)
           /\ \A l \in LheJobDecls(p) :
                Cardinality(ParentSlots(dag_lines[l][2])) = 1

\* two occurrences of a generated pool over three jobs: six units, the last
\* one consumed
C2_Witness ==
    /\ pc = "campaign_done"
    /\ n_jobs = 3
    /\ cur.inputs = <<"pool_jpsi_CSCO_g", "pool_gg", "pool_jpsi_CSCO_g">>
    /\ LHE_POOLS["pool_jpsi_CSCO_g"] = None
    /\ Cardinality(GenRefs("pool_jpsi_CSCO_g")) = 6
    /\ ParentSlots(LheJobName("pool_jpsi_CSCO_g", 5)) # {}

\* a set of integers without a gap
Contiguous(S) == \A a, b \in S : \A x \in a..b : x \in S

\* C3 as stated: for every pool p without a pre-staged location and every
\* occurrence position of p, the indices consumed at that position across
\* the N jobs form a contiguous block of 0..usage_count(p)*N-1 that overlaps
\* no other position's block.
C3_ContiguousPerOccurrence ==
    pc = "campaign_done" =>
      \A i \in GenPositions :
        LET p == cur.inputs[i] IN
        /\ Contiguous(ConsumedAt(p, i))
        /\ ConsumedAt(p, i) \subseteq 0..(Uses(cur.inputs, p) * n_jobs - 1)
        /\ \A k \in GenPositions :
             (k # i /\ cur.inputs[k] = p) =>
                ConsumedAt(p, i) \cap ConsumedAt(p, k) = {}

\* C3 amended: the indices consumed at occurrence u of p across the N jobs
\* are the N indices u, u+c, u+2c, ... of 0..c*N-1 (c = usage_count(p)),
\* overlapping no other position's set; they form a contiguous block exactly
\* when c = 1 or N <= 1.  The contiguous blocks are those of one job: job j
\* consumes j*c .. j*c+c-1 of p.
C3_StridedPerOccurrence ==
    pc = "campaign_done" =>
      \A i \in GenPositions :
        LET p == cur.inputs[i]
            c == Uses(cur.inputs, p)
            u == Occ(cur.inputs, i)
        IN /\ ConsumedAt(p, i) = {u + j * c : j \in 0..(n_jobs - 1)}
           /\ ConsumedAt(p, i) \subseteq 0..(c * n_jobs - 1)
           /\ \A k \in GenPositions :
                (k # i /\ cur.inputs[k] = p) =>
                   ConsumedAt(p, i) \cap ConsumedAt(p, k) = {}
           /\ Contiguous(ConsumedAt(p, i)) <=> (c = 1 \/ n_jobs <= 1)
           /\ \A v \in ProcVarsLines :
                Contiguous({r[3][3] : r \in {x \in GenRefs(p) : x[1] = v}})

\* a pool used twice over two jobs: its first occurrence consumes 0 and 2
C3_Witness ==
    /\ pc = "campaign_done"
    /\ n_jobs = 2
    /\ cur.inputs = <<"pool_gg", "pool_gg">>
    /\ LHE_POOLS["pool_gg"] = None
    /\ ConsumedAt("pool_gg", 1) = {0, 2}

\* C4: after generate_campaign_dag(campaign, N), every distinct pool p of
\* the campaign, used c times, has: without a pre-staged location, exactly
\* the generation jobs LHE_p_0 .. LHE_p_(c*N-1), each declared once; with
\* one, no generation job and c*N references, all of them EOS references.
\* No generation job of any other pool is declared.
C4_GenerationPerPool ==
    pc = "campaign_done" =>
      /\ \A p \in Elems(cur.inputs) :
           LET c == Uses(cur.inputs, p) IN
           IF NotStaged(p)
           THEN /\ Cardinality(LheJobDecls(p)) = c * n_jobs
                /\ \A k \in 0..(c * n_jobs - 1) :
                     Cardinality({l \in JobLines :
                        dag_lines[l][2] = <<"LHE", p, k>>}) = 1
           ELSE /\ LheJobDecls(p) = {}
                /\ Cardinality(PoolRefs(p)) = c * n_jobs
                /\ \A r \in PoolRefs(p) : r[3][1] = "EOS"
      /\ \A l \in JobLines :
           dag_lines[l][2][1] = "LHE" =>
              dag_lines[l][2][2] \in Elems(cur.inputs)

\* a generated pool used twice and a pre-staged pool, three jobs: six
\* generation jobs for the one, three EOS references for the other
C4_Witness ==
    /\ pc = "campaign_done"
    /\ n_jobs = 3
    /\ cur.inputs = <<"pool_jpsi_CSCO_g", "pool_jpsi_CSCO_g", "pool_gg">>
    /\ LHE_POOLS["pool_jpsi_CSCO_g"] = None
    /\ LHE_POOLS["pool_gg"] # None
    /\ Cardinality(LheJobDecls("pool_jpsi_CSCO_g")) = 6
    /\ Cardinality(PoolRefs("pool_gg")) = 3

\* C5: after generate_campaign_dag(campaign, N) the document declares
\* exactly the N processing jobs PROC_c_0 .. PROC_c_(N-1), which are the
\* ones returned; each has one VARS line with one reference per input, to
\* the pool of that input, in input order; its edges are as many as its
\* inputs whose pool has no pre-staged location, all from generation jobs of
\* such pools, and it has no PARENT line when there is none.
C5_ProcessingJobs ==
    pc = "campaign_done" =>
      /\ Cardinality(ProcJobLines) = n_jobs
      /\ processing_jobs = [k \in 1..n_jobs |-> ProcJobName(cur.name, k - 1)]
      /\ \A j \in 0..(n_jobs - 1) :
           LET name == ProcJobName(cur.name, j) IN
           /\ Cardinality({l \in JobLines : dag_lines[l][2] = name}) = 1
           /\ Cardinality(VarsLines(name)) = 1
           /\ \A v \in VarsLines(name) :
                /\ Len(dag_lines[v][3].inputs) = Len(cur.inputs)
                /\ \A i \in DOMAIN cur.inputs :
                     dag_lines[v][3].inputs[i][2] = cur.inputs[i]
           /\ IF GenPositions = {}
              THEN ParentLines(name) = {}
              ELSE /\ Cardinality(ParentLines(name)) = 1
                   /\ \A e \in ParentLines(name) :
                        /\ Len(dag_lines[e][2]) = Cardinality(GenPositions)
                        /\ \A k \in DOMAIN dag_lines[e][2] :
                             NotStaged(dag_lines[e][2][k][2])

\* the scenario inputs [A, A, B], N = 3, A generated, B pre-staged: six
\* generation jobs of A, none of B, three processing jobs of two parents
C5_Witness ==
    /\ pc = "campaign_done"
    /\ n_jobs = 3
    /\ cur.inputs = <<"pool_jpsi_CSCO_g", "pool_jpsi_CSCO_g", "pool_gg">>
    /\ LHE_POOLS["pool_jpsi_CSCO_g"] = None
    /\ LHE_POOLS["pool_gg"] # None
    /\ Cardinality(LheJobDecls("pool_jpsi_CSCO_g")) = 6
    /\ LheJobDecls("pool_gg") = {}
    /\ Cardinality(ProcJobLines) = 3
    /\ \A j \in 0..2 : \E e \in ParentLines(ProcJobName(cur.name, j)) :
         Len(dag_lines[e][2]) = 2

-----------------------------------------------------------------------------
(* Failure, the empty plan, job names *)

\* C6: when generate_campaign_dag fails on a name of the campaign's inputs
\* that is not a registered pool, the document holds no JOB directive.
C6_NoJobBeforeUnknownPool ==
    (pc = "campaign_raised" /\ raised[1] = "KeyError") => JobLines = {}

\* the positions of the FINAL directives
FinalLines == {i \in DOMAIN dag_lines : dag_lines[i][1] = "FINAL"}

C8_UniqueJobNames ==
    pc = "full_done" =>
      \A a, b \in JobLines : dag_lines[a][2] = dag_lines[b][2] => a = b

-----------------------------------------------------------------------------
(* The probe *)

\* the probe of pool p failed or found too few files
ProbeFailed(p) ==
    \/ ~check_proxy_valid(proxy)
    \/ remote[p].status # "ok"
    \/ remote[p].files < n_jobs

\* C9: at the end of main, every required pool whose probe failed or found
\* too few files is planned as to be generated: each requested campaign
\* using it has its usage_count*N generation jobs in the document and no
\* processing job refers to the pool as pre-staged.
C9_ProbeFailureRegenerates ==
    pc = "main_done" =>
      \A c \in Elems(campaigns) : \A p \in Elems(CAMPAIGNS[c].inputs) :
        ProbeFailed(p) =>
          /\ \A k \in 0..(Uses(CAMPAIGNS[c].inputs, p) * n_jobs - 1) :
               \E l \in JobLines : dag_lines[l][2] = <<"LHE", p, k>>
          /\ \A r \in PoolRefs(p) : r[3][1] # "EOS"

\* C10: when the credential check fails, scan_existing_pools returns the
\* empty mapping and runs xrdfs for no pool, whatever the pool list, the
\* threshold and the remote file counts.
C10_NoProxyNoPools ==
    (pc = "scanned" /\ ~check_proxy_valid(proxy)) =>
      (DOMAIN existing_pools = {} /\ probed = {})

\* the credential check fails while both listed pools hold enough files
C10_Witness ==
    /\ pc = "scanned"
    /\ ~check_proxy_valid(proxy)
    /\ Len(scan_args.required_pools) = 2
    /\ scan_args.min_files = 1
    /\ \A p \in ProbePools :
         remote[p].status = "ok" /\ remote[p].files >= scan_args.min_files
    /\ DOMAIN existing_pools = {}

\* C11: every call of scan_existing_pools that passes the credential check
\* returns exactly the listed pools whose remote file count is at least the
\* threshold of that call, each mapped to its fixed remote location; the
\* previous result does not count: a pool returned by an earlier call is
\* not returned when its count is below the threshold of the new call.
C11_ThresholdPerCall ==
    [][(pc' = "scanned" /\ check_proxy_valid(proxy')) =>
         LET names == Elems(scan_args'.required_pools)
             min_files == scan_args'.min_files
         IN /\ DOMAIN existing_pools' =
                 {p \in names :
                    count_lhe_files_on_t2(remote'[p]) >= min_files}
            /\ \A p \in DOMAIN existing_pools' :
                 existing_pools'[p] = ShippedPools[p]
            /\ \A p \in DOMAIN existing_pools :
                 count_lhe_files_on_t2(remote'[p]) < min_files =>
                   p \notin DOMAIN existing_pools']_vars

\* a second call with a valid credential: a pool holding MaxFiles files
\* meets the threshold MaxFiles exactly and is returned, or misses the
\* threshold MaxFiles + 1 and is left out
C11_Witness ==
    /\ pc = "scanned"
    /\ scans = 2
    /\ check_proxy_valid(proxy)
    /\ \E p \in Elems(scan_args.required_pools) :
         /\ remote[p].status = "ok"
         /\ remote[p].files = MaxFiles
         /\ \/ scan_args.min_files = MaxFiles /\ p \in DOMAIN existing_pools
            \/ scan_args.min_files = MaxFiles + 1
               /\ p \notin DOMAIN existing_pools

\* the listed pools whose xrdfs listing failed in the last call
FailedProbes ==
    {p \in Elems(scan_args.required_pools) : remote[p].status # "ok"}

\* C12: a failed listing (non-zero status, timeout, other exception) counts
\* as 0 files and does not end the call: the failed pool is decided as a
\* pool holding no file (left out for every positive threshold), and every
\* other listed pool, before or after it, is still probed and is returned
\* exactly when its own count reaches the threshold.
C12_ProbeFailureLocal ==
    (pc = "scanned" /\ check_proxy_valid(proxy)) =>
      \A p \in FailedProbes :
        /\ count_lhe_files_on_t2(remote[p]) = 0
        /\ p \in probed
        /\ p \in DOMAIN existing_pools <=> scan_args.min_files <= 0
        /\ \A q \in Elems(scan_args.required_pools) \ FailedProbes :
             /\ q \in probed
             /\ q \in DOMAIN existing_pools <=>
                  remote[q].files >= scan_args.min_files

\* the first listed pool times out, the second holds enough files and is
\* returned alone
C12_Witness ==
    /\ pc = "scanned"
    /\ check_proxy_valid(proxy)
    /\ Len(scan_args.required_pools) = 2
    /\ scan_args.min_files = 1
    /\ remote[scan_args.required_pools[1]].status = "timeout"
    /\ remote[scan_args.required_pools[2]].status = "ok"
    /\ remote[scan_args.required_pools[2]].files = 1
    /\ DOMAIN existing_pools = {scan_args.required_pools[2]}

\* the proxy file is there but its lifetime cannot be read: voms-proxy-info
\* is missing, raises or times out, exits non-zero, or prints no integer
CannotCheck == proxy.exists /\ proxy.run \in {"raise", "nonzero", "unparsable"}

\* C13: when the lifetime of the credential cannot be checked,
\* check_proxy_valid returns true and the call of scan_existing_pools goes
\* on to probe every listed pool.
C13_FailOpen ==
    (pc = "scanned" /\ CannotCheck) =>
      /\ check_proxy_valid(proxy)
      /\ probed = Elems(scan_args.required_pools)
      /\ \A p \in Elems(scan_args.required_pools) :
           (remote[p].status = "ok"
            /\ remote[p].files >= scan_args.min_files)
             => p \in DOMAIN existing_pools

\* voms-proxy-info prints something int() rejects; both listed pools are
\* probed and the one holding enough files is returned
C13_Witness ==
    /\ pc = "scanned"
    /\ proxy.exists
    /\ proxy.run = "unparsable"
    /\ Len(scan_args.required_pools) = 2
    /\ scan_args.min_files = 1
    /\ probed = ProbePools
    /\ DOMAIN existing_pools # {}

\* C14: a Campaign(...) call whose modes and inputs differ in length raises
\* and yields no object; hence every Campaign object, constructed or of
\* the catalog, has len(modes) = len(inputs) = n_sources.
C14_ModesMatchInputs ==
    /\ pc = "construct_raised" =>
         /\ Len(ctor_args.modes) # Len(ctor_args.inputs)
         /\ raised[1] = "ValueError"
    /\ pc = "constructed" =>
         /\ cur.inputs = ctor_args.inputs
         /\ cur.modes = ctor_args.modes
         /\ Len(cur.modes) = Len(cur.inputs)
         /\ cur.n_sources = Len(cur.inputs)
    /\ pc \in {"constructed", "construct_raised"} =>
         \A c \in DOMAIN CAMPAIGNS :
           /\ ~Raises(CAMPAIGNS[c])
           /\ Len(CAMPAIGNS[c].modes) = Len(CAMPAIGNS[c].inputs)
           /\ CAMPAIGNS[c].n_sources = Len(CAMPAIGNS[c].inputs)

\* a call with two inputs and one mode has raised
C14_Witness ==
    /\ pc = "construct_raised"
    /\ Len(ctor_args.inputs) = 2
    /\ Len(ctor_args.modes) = 1
    /\ raised[1] = "ValueError"

\* the requested campaigns that are valid: registered in CAMPAIGNS, with
\* every input registered in LHE_POOLS
ValidRequested ==
    {c \in Elems(campaigns) :
        /\ c \in DOMAIN CAMPAIGNS
        /\ Elems(CAMPAIGNS[c].inputs) \subseteq DOMAIN LHE_POOLS}

\* C15: a call of generate_full_dag never ends in an exception because of
\* an invalid campaign (unknown name, or an input naming an unregistered
\* pool), and the document it returns declares the N processing jobs of
\* every valid requested campaign.
C15_InvalidCampaignSkipped ==
    /\ pc # "full_raised"
    /\ pc = "full_done" =>
         \A c \in ValidRequested : \A j \in 0..(n_jobs - 1) :
           \E i \in JobLines : dag_lines[i][2] = ProcJobName(c, j)

\* the positions of the RETRY directives naming job name
RetryLines(name) ==
    {i \in DOMAIN dag_lines :
        dag_lines[i][1] = "RETRY" /\ dag_lines[i][2] = name}

\* the positions of the JOB directives declaring job name
JobDecls(name) == {i \in JobLines : dag_lines[i][2] = name}

\* C16: every generation job is emitted with exactly one RETRY directive,
\* of count 3, and every processing job with exactly one, of count 2,
\* whatever the campaign, the pools and N: each JOB directive is followed
\* (after its VARS line) by the RETRY directive of the same job, there are
\* as many RETRY directives naming a job as JOB directives declaring it,
\* and a generation budget always exceeds a processing budget.
C16_RetryBudgets ==
    /\ \A i \in JobLines :
         LET name == dag_lines[i][2] IN
         /\ i + 2 \in RetryLines(name)
         /\ Cardinality(RetryLines(name)) = Cardinality(JobDecls(name))
         /\ \A r \in RetryLines(name) :
              dag_lines[r][3] = IF name[1] = "LHE" THEN 3 ELSE 2
    /\ \A r \in DOMAIN dag_lines :
         dag_lines[r][1] = "RETRY" => JobDecls(dag_lines[r][2]) # {}
    /\ \A g, q \in DOMAIN dag_lines :
         (/\ dag_lines[g][1] = "RETRY" /\ dag_lines[g][2][1] = "LHE"
          /\ dag_lines[q][1] = "RETRY" /\ dag_lines[q][2][1] = "PROC")
           => dag_lines[g][3] > dag_lines[q][3]

\* a finished plan of one campaign with N >= 2 that declares generation
\* jobs of two pools and processing jobs, each name with its one RETRY
C16_Witness ==
    /\ pc = "campaign_done"
    /\ n_jobs >= 2
    /\ Cardinality({dag_lines[i][2][2] :
                      i \in {k \in JobLines : dag_lines[k][2][1] = "LHE"}}) = 2
    /\ ProcJobLines # {}
    /\ \A i \in JobLines : Cardinality(RetryLines(dag_lines[i][2])) = 1

\* the positions of the directives: the lines that are neither comments
\* nor blank
Directives == {i \in DOMAIN dag_lines : dag_lines[i][1] \notin {"#", ""}}

\* C17: in a document returned by generate_full_dag that holds the summary
\* node, FINAL SUMMARY occurs exactly once, every other directive (CONFIG,
\* JOB, VARS, RETRY, PARENT) comes before it, and no PARENT ... CHILD line
\* names SUMMARY as parent or as child.
C17_SummaryLast ==
    (pc = "full_done" /\ FinalLines # {}) =>
      /\ Cardinality(FinalLines) = 1
      /\ \A f \in FinalLines :
           /\ dag_lines[f][2] = <<"SUMMARY">>
           /\ f = Len(dag_lines)
           /\ \A i \in Directives \ {f} : i < f
      /\ \A i \in DOMAIN dag_lines :
           dag_lines[i][1] = "PARENT" =>
             /\ <<"SUMMARY">> \notin Elems(dag_lines[i][2])
             /\ dag_lines[i][3] # <<"SUMMARY">>

\* a returned document of two planned campaigns with PARENT lines and the
\* summary node
C17_Witness ==
    /\ pc = "full_done"
    /\ FinalLines # {}
    /\ Len(campaigns) = 2
    /\ Cardinality({dag_lines[i][2][2] : i \in ProcJobLines}) = 2
    /\ \E i \in DOMAIN dag_lines : dag_lines[i][1] = "PARENT"

\* the positions of the PARENT ... CHILD directives
EdgeLines == {e \in DOMAIN dag_lines : dag_lines[e][1] = "PARENT"}

\* job `name` is declared by a JOB directive above line e
DeclaredBefore(name, e) == \E i \in JobLines : i < e /\ dag_lines[i][2] = name

\* C18: every PARENT ... CHILD line is written below the JOB lines of all
\* the jobs it names: each parent is a generation job already declared,
\* the child a processing job already declared; so edges go from LHE jobs
\* to PROC jobs only and the graph has no cycle.  The lookup of the parent
\* in pool_lhe_jobs never raises IndexError, with use_existing_lhe true or
\* false.
C18_EdgesBetweenDeclaredJobs ==
    /\ \A e \in EdgeLines :
         /\ dag_lines[e][3][1] = "PROC"
         /\ DeclaredBefore(dag_lines[e][3], e)
         /\ dag_lines[e][2] # <<>>
         /\ \A k \in DOMAIN dag_lines[e][2] :
              /\ dag_lines[e][2][k][1] = "LHE"
              /\ DeclaredBefore(dag_lines[e][2][k], e)
    /\ raised # None => raised[1] # "IndexError"

\* a finished plan with N >= 2 whose PARENT lines name two and more
\* generation jobs, of two pools
C18_Witness ==
    /\ pc = "campaign_done"
    /\ n_jobs >= 2
    /\ \E e \in EdgeLines :
         /\ Len(dag_lines[e][2]) >= 2
         /\ \E k, l \in DOMAIN dag_lines[e][2] :
              dag_lines[e][2][k][2] # dag_lines[e][2][l][2]
         /\ dag_lines[e][3][3] = n_jobs - 1

\* how far main has got: 1 probe, 2 patch, 3 and more the planner
Stage(at) ==
    CASE at = "main_start" -> 0
      [] at = "main_scan" -> 1
      [] at = "main_patch" -> 2
      [] at = "main_plan" -> 3
      [] at = "campaign_loop" -> 4
      [] at \in {"main_write", "full_raised"} -> 5
      [] at \in {"main_done", "main_exit"} -> 6

\* the catalog main started with, the locations of existing_pools written in
PatchedPools ==
    [p \in DOMAIN static_pools |->
        IF p \in DOMAIN existing_pools THEN existing_pools[p]
        ELSE static_pools[p]]

\* C19: one run of main probes, then patches, then plans.  Steps never go
\* back; the planner starts only from the state the patch loop leaves; the
\* catalog changes in the patch step and in no other; from the first step
\* of generate_full_dag on, the catalog is the fully patched one and
\* planning leaves it as it is.
C19_ProbePatchPlan ==
    [][/\ Stage(pc') >= Stage(pc)
       /\ Stage(pc') = 2 => (Stage(pc) = 1 /\ scans' = 1)
       /\ Stage(pc') = 3 => Stage(pc) = 2
       /\ (Stage(pc') = 4 /\ Stage(pc) # 4) => Stage(pc) = 3
       /\ LHE_POOLS' # LHE_POOLS => (Stage(pc) = 2 /\ Stage(pc') = 3)
       /\ Stage(pc) < 2 => LHE_POOLS' = static_pools
       /\ Stage(pc') \in 3..5 =>
            (LHE_POOLS' = PatchedPools' /\ existing_pools' = existing_pools)
       /\ static_pools' = static_pools]_vars

\* a finished run whose probe found a pool the catalog had no location
\* for: the planner ran on the patched catalog and returned a document
C19_Witness ==
    /\ pc = "main_write"
    /\ scans = 1
    /\ LHE_POOLS # static_pools
    /\ LHE_POOLS = PatchedPools
    /\ FinalLines # {}

\* the graph a document describes: its JOB, VARS, RETRY and PARENT
\* directives, whatever the order of the lines
GraphOf(lines) ==
    {lines[i] : i \in {k \in DOMAIN lines :
                          lines[k][1] \in {"JOB", "VARS", "RETRY", "PARENT"}}}

\* what generate_campaign_dag gives for the campaign, catalog and N of the
\* finished call when list(set(campaign.inputs)) comes out as order o
Rerun(o, use_existing_lhe) ==
    generate_campaign_dag(<<>>, cur, n_jobs, use_existing_lhe, o, LHE_POOLS)

\* C20: a second run of generate_campaign_dag on the same campaign, the
\* same catalog state and the same N gives the same graph as the finished
\* one (the same JOB lines, VARS parameters, RETRY counts and PARENT
\* edges, and the same returned job list) under every iteration order of
\* the distinct pools; a run that raises does so under every order.
C20_SameGraphUnderEveryOrder ==
    pc \in {"campaign_done", "campaign_raised"} =>
      \A o \in Orders(Elems(cur.inputs)), use_existing_lhe \in BOOLEAN :
        /\ Rerun(o, use_existing_lhe).raised = raised
        /\ pc = "campaign_done" =>
             /\ GraphOf(Rerun(o, use_existing_lhe).lines) = GraphOf(dag_lines)
             /\ Len(Rerun(o, use_existing_lhe).lines) = Len(dag_lines)
             /\ Rerun(o, use_existing_lhe).jobs = processing_jobs

\* a finished plan with N >= 2 over two pools without location, for which
\* another iteration order writes the lines in another sequence
C20_Witness ==
    /\ pc = "campaign_done"
    /\ n_jobs >= 2
    /\ Cardinality({p \in Elems(cur.inputs) : NotStaged(p)}) = 2
    /\ \E o \in Orders(Elems(cur.inputs)) :
         /\ Rerun(o, TRUE).lines # dag_lines
         /\ GraphOf(Rerun(o, TRUE).lines) = GraphOf(dag_lines)

-----------------------------------------------------------------------------
(* The demand on a pre-staged pool *)

\* the files campaign c consumes from pool p at multiplicity N
Demand(c, p) == Uses(CAMPAIGNS[c].inputs, p) * n_jobs

\* C21: once main has patched the catalog, every pool the probe returned
\* (and the patch so marked pre-staged) holds at least usage_count(p)*N
\* remote files for every requested campaign.
C21_PreStagedCoversDemand ==
    Stage(pc) \in 3..6 /\ pc # "main_exit" =>
      \A p \in DOMAIN existing_pools : \A c \in Elems(campaigns) :
        count_lhe_files_on_t2(remote[p]) >= Demand(c, p)

-----------------------------------------------------------------------------
(* The credential check *)

\* the proxy file is missing, or voms-proxy-info printed the seconds left
LifetimeKnown == ~proxy.exists \/ proxy.run = "ok"

\* the last call of scan_existing_pools went on to probe its pools
Probing == probed # {}

\* C22: when the lifetime can be read, check_proxy_valid is true for a
\* lifetime above 3600 seconds and false for one at or below 3600; it is
\* false when the proxy file is missing.  A call of scan_existing_pools on
\* a non-empty list probes exactly when the check is true.
C22_ValidAboveThreshold ==
    (pc = "scanned" /\ LifetimeKnown) =>
      /\ check_proxy_valid(proxy) <=> (proxy.exists /\ proxy.timeleft > 3600)
      /\ scan_args.required_pools # <<>> =>
           (Probing <=> (proxy.exists /\ proxy.timeleft > 3600))

\* C22, as the code has it: when the lifetime can be read, the check is
\* true exactly for a lifetime above 0 (3600 only tells "valid" from
\* "expiring soon" in what is printed); it is false when the proxy file
\* is missing.  A call of scan_existing_pools on a non-empty list probes
\* exactly when the check is true.
C22_ValidWhileNotExpired ==
    (pc = "scanned" /\ LifetimeKnown) =>
      /\ check_proxy_valid(proxy) <=> (proxy.exists /\ proxy.timeleft > 0)
      /\ scan_args.required_pools # <<>> =>
           (Probing <=> (proxy.exists /\ proxy.timeleft > 0))

\* a proxy with exactly 3600 seconds left: the pools are probed and one
\* is returned
C22_Witness ==
    /\ pc = "scanned"
    /\ proxy.exists
    /\ proxy.run = "ok"
    /\ proxy.timeleft = 3600
    /\ Probing
    /\ DOMAIN existing_pools # {}

-----------------------------------------------------------------------------
(* The frame of the patch *)

=============================================================================
